---- MODULE Spec2Model ----
(***************************************************************************)
(* StudyFlow (script.js): the streak tracker (updateStreak,                *)
(* checkStreakMilestones), its callers (toggleTaskStatus, initializeApp)   *)
(* and the Pomodoro timer (startTimer, pauseTimer, resetTimer,             *)
(* setPomodoroMode, handleTimerEnd).                                       *)
(*                                                                         *)
(* Time is the value of `new Date()` in whole hours since an epoch that is *)
(* 00:00 UTC of day 0.  A calendar date string "YYYY-MM-DD" is modelled by *)
(* its day number; string equality and the string order `<` of two such    *)
(* dates are equality and order of the day numbers.                        *)
(***************************************************************************)
EXTENDS Integers, Sequences, FiniteSets, TLC

VARIABLES
    now,          \* the system clock, hours since 00:00 UTC of day 0
    tz,           \* the browser's time zone: [before, after, at]
    loaded,       \* window.onload has run initializeApp
    tasks,        \* state.tasks
    streak,       \* state.streak
    theme,        \* state.theme
    notes,        \* state.notes
    goals,        \* state.goals: the set of [subject, totalGoal, hoursLogged]
    userName,     \* state.userName, as the sequence of its characters
    academicProfile, \* state.academicProfile
    storage,      \* localStorage[APP_STORAGE_KEY]
    writable,     \* localStorage.setItem succeeds (the quota is not exhausted)
    ui,           \* the DOM texts the handlers write
    pomodoro,     \* state.pomodoro: [time, mode, running, intervalId]
    intervals,    \* the interval handles of startTimer that are still active
    trace,        \* the calls and DOM writes of the handler that just ran, in order
    lastOp,       \* the handler that just ran ("none" once time has moved on)
    hist          \* history of the run (observations only, never read by the code)

vars == <<now, tz, loaded, tasks, streak, theme, notes, goals, userName,
          academicProfile, storage, writable, ui, pomodoro, intervals, trace,
          lastOp, hist>>

----------------------------------------------------------------------------
(* Bounds of the model *)

\* the clock runs over days 0 .. MaxDay
MaxDay == 4
\* at most this many tasks are ever added
MaxTasks == 1
\* the day on which the zone's daylight-saving transition falls
TransitionDay == 2
\* the planner lists at most this many tasks
MaxListed == 2
\* at most this many hours are logged against a goal
MaxHours == 2

MaxTime == (MaxDay + 1) * 24 - 1

----------------------------------------------------------------------------
(* Values *)

\* JavaScript null (a date field that holds no date)
Null == -99

STREAK_MILESTONES == {5, 10, 20, 50, 100}

DefaultStreak == [count |-> 0, lastCompletionDate |-> Null, lastRewardedDay |-> Null]

\* Time zones the browser may run in: no daylight saving (UTC), a zone whose
\* offset goes from -5 h to -4 h (clocks forward) at 07:00 UTC of TransitionDay,
\* and one whose offset goes from -4 h to -5 h (clocks back) at 06:00 UTC.
Zones ==
    { [before |-> 0,  after |-> 0,  at |-> 0],
      [before |-> -5, after |-> -4, at |-> TransitionDay * 24 + 7],
      [before |-> -4, after |-> -5, at |-> TransitionDay * 24 + 6] }

----------------------------------------------------------------------------
(* Date arithmetic of the host (ECMAScript Date) *)

\* date.toISOString().slice(0, 10): the UTC calendar day of an instant
ISODate(t) == t \div 24

\* LocalTime(t): the wall-clock reading of instant t in zone z
LocalTime(z, t) == t + (IF t < z.at THEN z.before ELSE z.after)

\* UTC(w): the instant of wall-clock reading w in zone z; a reading that is
\* skipped or repeated at a transition is read with the offset before it
UTCOfLocal(z, w) ==
    LET tb == w - z.before
        ta == w - z.after
    IN  IF tb < z.at THEN tb
        ELSE IF ta >= z.at THEN ta
        ELSE tb

\* const yesterday = new Date(); yesterday.setDate(yesterday.getDate() - 1);
\* yesterday.toISOString().slice(0, 10)
YesterdayString(z, t) == ISODate(UTCOfLocal(z, LocalTime(z, t) - 24))

----------------------------------------------------------------------------
(* Persistence *)

\* the persisted fields of state
Fields == {"tasks", "notes", "theme", "goals", "userName", "streak",
           "academicProfile"}

DefaultAcademicProfile == [major |-> <<>>, level |-> "undergrad"]

\* the persisted fields as the script's `let state = {...}` sets them
DefaultState ==
    [tasks |-> <<>>, notes |-> "", theme |-> "light", goals |-> {},
     userName |-> <<>>, streak |-> DefaultStreak,
     academicProfile |-> DefaultAcademicProfile]

\* What localStorage holds under APP_STORAGE_KEY: `exists` is false when
\* getItem returns null or the empty string, `parsable` is false when
\* JSON.parse throws or yields null, and `has` names the fields the parsed
\* object carries (the record keeps the default in the place of a field it
\* does not carry).
NoDocument ==
    [exists |-> FALSE, parsable |-> FALSE, has |-> {},
     tasks |-> <<>>, notes |-> "", theme |-> "light", goals |-> {},
     userName |-> <<>>, streak |-> DefaultStreak,
     academicProfile |-> DefaultAcademicProfile]

\* saveState: the document written under APP_STORAGE_KEY.  JSON.stringify
\* followed by JSON.parse gives back equal numbers, strings, nulls, arrays
\* and objects, which is all these fields hold.
SaveState(tks, nts, th, gls, name, st, prof) ==
    [exists |-> TRUE, parsable |-> TRUE, has |-> Fields,
     tasks |-> tks, notes |-> nts, theme |-> th, goals |-> gls,
     userName |-> name, streak |-> st, academicProfile |-> prof]

\* A faulty loadState: a document that lacks a field is not used at all
LoadStateAllOrNothing(doc) ==
    IF doc.exists /\ doc.parsable /\ doc.has = Fields
    THEN [tasks |-> doc.tasks, notes |-> doc.notes, theme |-> doc.theme,
          goals |-> doc.goals, userName |-> doc.userName,
          streak |-> doc.streak, academicProfile |-> doc.academicProfile]
    ELSE DefaultState

\* loadState: the persisted fields after the merge with the defaults.
\* `loaded.f || default` takes the default for a field that is missing or
\* falsy: of the values these fields hold only the empty string is falsy
\* (arrays and objects, empty ones too, are truthy).
LoadState(doc) ==
    IF doc.exists /\ doc.parsable
    THEN [tasks |-> IF "tasks" \in doc.has THEN doc.tasks ELSE <<>>,
          notes |-> IF "notes" \in doc.has /\ doc.notes # ""
                    THEN doc.notes ELSE "",
          theme |-> IF "theme" \in doc.has /\ doc.theme # ""
                    THEN doc.theme ELSE "light",
          goals |-> IF "goals" \in doc.has THEN doc.goals ELSE {},
          userName |-> IF "userName" \in doc.has /\ doc.userName # <<>>
                       THEN doc.userName ELSE <<>>,
          streak |-> IF "streak" \in doc.has THEN doc.streak
                     ELSE [count |-> 0, lastCompletionDate |-> Null,
                           lastRewardedDay |-> Null],
          academicProfile |-> IF "academicProfile" \in doc.has
                              THEN doc.academicProfile
                              ELSE [major |-> <<>>, level |-> "undergrad"]]
    ELSE DefaultState

\* the path loadState takes on a document
LoadStateTrace(doc) ==
    <<"loadState",
      IF ~doc.exists THEN "loadState:nothing stored"
      ELSE IF ~doc.parsable THEN "loadState:catch"
      ELSE IF doc.has = Fields THEN "loadState:all fields stored"
      ELSE "loadState:some fields missing">>

----------------------------------------------------------------------------
(* Streak *)

\* A faulty checkStreakMilestones: lastRewardedDay is not marked
CheckStreakMilestonesNoMark(st, count, today) ==
    IF st.lastRewardedDay # today /\ count \in STREAK_MILESTONES
    THEN [streak |-> st, milestone |-> count]
    ELSE [streak |-> st, milestone |-> 0]

\* checkStreakMilestones(count, today): the streak afterwards and the
\* milestone whose modal was shown (0 when none was)
CheckStreakMilestones(st, count, today) ==
    IF st.lastRewardedDay # today /\ count \in STREAK_MILESTONES
    THEN [streak |-> [st EXCEPT !.lastRewardedDay = today], milestone |-> count]
    ELSE [streak |-> st, milestone |-> 0]

\* A faulty updateStreak: the "already logged a completion today" test is missing
UpdateStreakNoSameDay(st, isTaskCompleted, z, t) ==
    LET today == ISODate(t)
        lastDate == st.lastCompletionDate
        yesterdayString == YesterdayString(z, t)
    IN  IF isTaskCompleted
        THEN LET counted == IF lastDate # Null /\ lastDate = yesterdayString
                            THEN st.count + 1 ELSE 1
                 s1 == [st EXCEPT !.count = counted, !.lastCompletionDate = today]
             IN  CheckStreakMilestones(s1, s1.count, today)
        ELSE IF lastDate # Null /\ lastDate < yesterdayString
        THEN [streak |-> DefaultStreak, milestone |-> 0]
        ELSE [streak |-> st, milestone |-> 0]

\* A faulty updateStreak: the reset on load leaves lastCompletionDate in place
UpdateStreakKeepDate(st, isTaskCompleted, z, t) ==
    LET today == ISODate(t)
        lastDate == st.lastCompletionDate
        yesterdayString == YesterdayString(z, t)
    IN  IF isTaskCompleted
        THEN LET counted == IF lastDate = today THEN st.count
                            ELSE IF lastDate # Null /\ lastDate = yesterdayString
                            THEN st.count + 1 ELSE 1
                 s1 == [st EXCEPT !.count = counted, !.lastCompletionDate = today]
             IN  IF lastDate # today
                 THEN CheckStreakMilestones(s1, s1.count, today)
                 ELSE [streak |-> s1, milestone |-> 0]
        ELSE IF lastDate # Null /\ lastDate < yesterdayString
        THEN [streak |-> [st EXCEPT !.count = 0, !.lastRewardedDay = Null],
              milestone |-> 0]
        ELSE [streak |-> st, milestone |-> 0]

\* A faulty updateStreak: the milestone modal is shown on every completion
\* whose count is a milestone, without the streakIncremented flag and
\* without the lastRewardedDay test
UpdateStreakAlwaysReward(st, isTaskCompleted, z, t) ==
    LET today == ISODate(t)
        lastDate == st.lastCompletionDate
        yesterdayString == YesterdayString(z, t)
    IN  IF isTaskCompleted
        THEN LET counted == IF lastDate = today THEN st.count
                            ELSE IF lastDate # Null /\ lastDate = yesterdayString
                            THEN st.count + 1 ELSE 1
                 s1 == [st EXCEPT !.count = counted, !.lastCompletionDate = today]
             IN  IF counted \in STREAK_MILESTONES
                 THEN [streak |-> [s1 EXCEPT !.lastRewardedDay = today],
                       milestone |-> counted]
                 ELSE [streak |-> s1, milestone |-> 0]
        ELSE IF lastDate # Null /\ lastDate < yesterdayString
        THEN [streak |-> DefaultStreak, milestone |-> 0]
        ELSE [streak |-> st, milestone |-> 0]

\* updateStreak(isTaskCompleted) run at instant t in zone z: the streak
\* afterwards and the milestone whose modal was shown (0 when none was)
UpdateStreak(st, isTaskCompleted, z, t) ==
    LET today == ISODate(t)
        lastDate == st.lastCompletionDate
        yesterdayString == YesterdayString(z, t)
    IN  IF isTaskCompleted
        THEN LET counted ==
                     IF lastDate = today THEN st.count
                     ELSE IF lastDate # Null
                          THEN (IF lastDate = yesterdayString THEN st.count + 1 ELSE 1)
                          ELSE 1
                 streakIncremented == lastDate # today
                 s1 == [st EXCEPT !.count = counted, !.lastCompletionDate = today]
             IN  IF streakIncremented
                 THEN CheckStreakMilestones(s1, s1.count, today)
                 ELSE [streak |-> s1, milestone |-> 0]
        ELSE IF lastDate # Null /\ lastDate < yesterdayString
        THEN [streak |-> [count |-> 0, lastCompletionDate |-> Null,
                          lastRewardedDay |-> Null],
              milestone |-> 0]
        ELSE [streak |-> st, milestone |-> 0]

\* The calls and DOM writes of one updateStreak call, in order
UpdateStreakTrace(isTaskCompleted, milestone) ==
    <<IF isTaskCompleted THEN "updateStreak(true)" ELSE "updateStreak(false)">>
    \o (IF milestone # 0 THEN <<"showModal:MILESTONE REACHED">> ELSE <<>>)
    \o <<"write:stat-streak", "saveState">>

\* updateMotivationMessage: the message written for a streak count
MotivationMessage(streakCount) ==
    IF streakCount = 0 THEN [kind |-> "first task", n |-> 0]
    ELSE IF streakCount > 0 /\ streakCount < 5 THEN [kind |-> "run", n |-> streakCount]
    ELSE IF streakCount >= 5 /\ streakCount < 10 THEN [kind |-> "milestone", n |-> streakCount]
    ELSE IF streakCount >= 10 THEN [kind |-> "study machine", n |-> streakCount]
    ELSE [kind |-> "streak", n |-> streakCount]

----------------------------------------------------------------------------
(* Tasks *)

PRIORITY_ORDER(p) ==
    IF p = "High" THEN 3 ELSE IF p = "Medium" THEN 2 ELSE IF p = "Low" THEN 1 ELSE 0

\* getNextTaskId
RECURSIVE MaxId(_)
MaxId(tks) ==
    IF tks = <<>> THEN 0
    ELSE LET m == MaxId(Tail(tks)) IN IF Head(tks).id > m THEN Head(tks).id ELSE m

\* localStorage.setItem: the document is stored, or the call throws
SetItem(current, ok, doc) ==
    [storage |-> IF ok THEN doc ELSE current, thrown |-> ~ok]

\* a saveState without the try / catch: the exception of setItem goes on to
\* the caller
SaveStateCallNoCatch(current, ok, doc) ==
    LET w == SetItem(current, ok, doc)
    IN  [storage |-> w.storage, thrown |-> w.thrown, log |-> <<>>]

\* a call of saveState with the document it builds: what localStorage holds
\* afterwards, whether the call throws, and what it logs
SaveStateCall(current, ok, doc) ==
    LET w == SetItem(current, ok, doc)
    IN  [storage |-> w.storage, thrown |-> FALSE,
         log |-> IF w.thrown THEN <<"console.error">> ELSE <<>>]

\* the rest of a handler from its call of saveState on: an exception leaves
\* the handler, otherwise the statements after the call run
AfterSaveState(s, rest) ==
    <<"saveState">> \o s.log \o (IF s.thrown THEN <<"throw">> ELSE rest)

\* an id taken from the length of the list
GetNextTaskIdByLength(tks) == Len(tks) + 1

GetNextTaskId(tks) == IF Len(tks) > 0 THEN MaxId(tks) + 1 ELSE 1

\* state.tasks.find / findIndex: the index of the first task with this id, 0 when none
FindIndex(tks, id) ==
    IF \E i \in 1..Len(tks) : tks[i].id = id
    THEN CHOOSE i \in 1..Len(tks) :
             tks[i].id = id /\ \A j \in 1..(i - 1) : tks[j].id # id
    ELSE 0

\* a comparator that puts the lower priority first
CompareTasksAscending(a, b) ==
    IF a.status = "pending" /\ b.status = "completed" THEN -1
    ELSE IF a.status = "completed" /\ b.status = "pending" THEN 1
    ELSE IF PRIORITY_ORDER(b.priority) # PRIORITY_ORDER(a.priority)
         THEN PRIORITY_ORDER(a.priority) - PRIORITY_ORDER(b.priority)
    ELSE a.deadline - b.deadline

\* the comparator of renderTasks: negative when a goes first, positive when b does
CompareTasks(a, b) ==
    IF a.status = "pending" /\ b.status = "completed" THEN -1
    ELSE IF a.status = "completed" /\ b.status = "pending" THEN 1
    ELSE IF PRIORITY_ORDER(b.priority) # PRIORITY_ORDER(a.priority)
         THEN PRIORITY_ORDER(b.priority) - PRIORITY_ORDER(a.priority)
    ELSE a.deadline - b.deadline

\* Array.prototype.sort with that comparator (a stable sort)
RECURSIVE InsertTask(_, _)
InsertTask(sorted, x) ==
    IF sorted = <<>> THEN <<x>>
    ELSE IF CompareTasks(x, Head(sorted)) < 0 THEN <<x>> \o sorted
    ELSE <<Head(sorted)>> \o InsertTask(Tail(sorted), x)

RECURSIVE SortTasks(_)
SortTasks(tks) ==
    IF tks = <<>> THEN <<>>
    ELSE InsertTask(SortTasks(SubSeq(tks, 1, Len(tks) - 1)), tks[Len(tks)])

UpperCase == <<"A", "B", "C", "D", "E", "F", "G", "H", "I", "J", "K", "L", "M",
               "N", "O", "P", "Q", "R", "S", "T", "U", "V", "W", "X", "Y", "Z">>
LowerCase == <<"a", "b", "c", "d", "e", "f", "g", "h", "i", "j", "k", "l", "m",
               "n", "o", "p", "q", "r", "s", "t", "u", "v", "w", "x", "y", "z">>

\* the characters of the texts typed into title, subject and task-search
Letters(text) ==
    CASE text = "" -> <<>>
      [] text = "Q" -> <<"Q">>
      [] text = "Quiz" -> <<"Q", "u", "i", "z">>
      [] text = "Math" -> <<"M", "a", "t", "h">>
      [] text = "Lab" -> <<"L", "a", "b">>
      [] text = "FAQ" -> <<"F", "A", "Q">>
      [] text = "Essay" -> <<"E", "s", "s", "a", "y">>
      [] text = "Art" -> <<"A", "r", "t">>
      [] text = "Read" -> <<"R", "e", "a", "d">>

\* String.prototype.toLowerCase on a sequence of characters
ToLowerCase(text) ==
    [i \in 1..Len(text) |->
        IF \E k \in 1..Len(UpperCase) : UpperCase[k] = text[i]
        THEN LowerCase[CHOOSE k \in 1..Len(UpperCase) : UpperCase[k] = text[i]]
        ELSE text[i]]

\* String.prototype.includes
Includes(text, part) ==
    \E i \in 0..(Len(text) - Len(part)) : SubSeq(text, i + 1, i + Len(part)) = part

\* renderTasks, steps 1 and 2: the tasks that pass the status filter and the
\* search in subject and title
FilterTasks(tks, filterStatus, searchValue) ==
    LET searchQuery == ToLowerCase(Letters(searchValue))
        byStatus == IF filterStatus # "all"
                    THEN SelectSeq(tks, LAMBDA t : t.status = filterStatus)
                    ELSE tks
    IN  IF searchQuery # <<>>
        THEN SelectSeq(byStatus,
                 LAMBDA t : \/ Includes(ToLowerCase(Letters(t.subject)),
                                        searchQuery)
                            \/ Includes(ToLowerCase(Letters(t.title)),
                                        searchQuery))
        ELSE byStatus

\* renderTasks, step 3 and the rendering: the tasks in tasks-list, in order
TasksList(tks, filterStatus, searchValue) ==
    SortTasks(FilterTasks(tks, filterStatus, searchValue))

\* renderTasks writes tasks-list: one item per task, in this order (an item
\* is kept as the id of its task)
ShowTasks(u, shown) ==
    [u EXCEPT !.tasksList = [i \in 1..Len(shown) |-> shown[i].id]]

\* renderTasks: state.tasks afterwards.  With the filter on "all" and no search
\* query filteredTasks is state.tasks itself, and the sort reorders it in place.
RenderTasks(tks, filterStatus, searchQuery) ==
    IF filterStatus = "all" /\ ToLowerCase(Letters(searchQuery)) = <<>>
    THEN SortTasks(tks) ELSE tks

\* A faulty updateDashboardStats: the motivation message is not refreshed
UpdateDashboardStatsNoMessage(u, tks, st) ==
    [u EXCEPT !.pendingTasks =
        Cardinality({i \in 1..Len(tks) : tks[i].status = "pending"})]

\* updateDashboardStats (called at the end of renderTasks): the DOM afterwards
UpdateDashboardStats(u, tks, st) ==
    [u EXCEPT !.pendingTasks =
                  Cardinality({i \in 1..Len(tks) : tks[i].status = "pending"}),
              !.motivation = MotivationMessage(st.count)]

\* A faulty toggleTaskStatus: updateStreak(true) is called on every toggle
ToggleTaskStatusAlways(tks, st, id, z, t) ==
    LET i == FindIndex(tks, id)
    IN  IF i = 0
        THEN [found |-> FALSE, from |-> "", tasks |-> tks, streak |-> st,
              milestone |-> 0, calls |-> <<>>]
        ELSE LET wasPending == tks[i].status = "pending"
                 status == IF wasPending THEN "completed" ELSE "pending"
                 r == UpdateStreak(st, TRUE, z, t)
             IN  [found |-> TRUE, from |-> tks[i].status,
                  tasks |-> [tks EXCEPT ![i].status = status],
                  streak |-> r.streak, milestone |-> r.milestone,
                  calls |-> UpdateStreakTrace(TRUE, r.milestone)]

\* toggleTaskStatus(id) up to its saveState: the status flip and the streak update
ToggleTaskStatusCore(tks, st, id, z, t) ==
    LET i == FindIndex(tks, id)
    IN  IF i = 0
        THEN [found |-> FALSE, from |-> "", tasks |-> tks, streak |-> st,
              milestone |-> 0, calls |-> <<>>]
        ELSE LET wasPending == tks[i].status = "pending"
                 status == IF wasPending THEN "completed" ELSE "pending"
                 r == IF status = "completed"
                      THEN UpdateStreak(st, TRUE, z, t)
                      ELSE [streak |-> st, milestone |-> 0]
             IN  [found |-> TRUE, from |-> tks[i].status,
                  tasks |-> [tks EXCEPT ![i].status = status],
                  streak |-> r.streak, milestone |-> r.milestone,
                  calls |-> IF status = "completed"
                            THEN UpdateStreakTrace(TRUE, r.milestone) ELSE <<>>]

----------------------------------------------------------------------------
(* Pomodoro timer *)

StudySeconds == 1500
ShortSeconds == 300
LongSeconds == 900

Modes == {"study", "short", "long"}

DefaultPomodoro == [time |-> StudySeconds, mode |-> "study", running |-> FALSE,
                    intervalId |-> Null]

\* the switch of setPomodoroMode: timeInSeconds for a mode
ModeSeconds(mode) ==
    IF mode = "study" THEN StudySeconds
    ELSE IF mode = "short" THEN ShortSeconds
    ELSE IF mode = "long" THEN LongSeconds
    ELSE 0

\* A faulty pauseTimer: the remaining time is reloaded as well
PauseTimerCoreReload(p, ivs) ==
    [pomodoro |-> [p EXCEPT !.running = FALSE, !.time = ModeSeconds(p.mode)],
     intervals |-> ivs \ {p.intervalId}]

\* A faulty pauseTimer: running is cleared but the interval is left active
PauseTimerCoreKeepInterval(p, ivs) ==
    [pomodoro |-> [p EXCEPT !.running = FALSE], intervals |-> ivs]

\* pauseTimer: clearInterval(state.pomodoro.intervalId); running = false
PauseTimerCore(p, ivs) ==
    [pomodoro |-> [p EXCEPT !.running = FALSE],
     intervals |-> ivs \ {p.intervalId}]

\* A faulty setPomodoroMode: pauseTimer is not called first
SetPomodoroModeNoPause(p, ivs, mode) ==
    [pomodoro |-> [p EXCEPT !.mode = mode, !.time = ModeSeconds(mode)],
     intervals |-> ivs]

\* A faulty setPomodoroMode: the remaining time is not reloaded
SetPomodoroModeKeepTime(p, ivs, mode) ==
    LET q == PauseTimerCore(p, ivs)
    IN  [pomodoro |-> [q.pomodoro EXCEPT !.mode = mode],
         intervals |-> q.intervals]

\* setPomodoroMode(mode)
SetPomodoroMode(p, ivs, mode) ==
    LET q == PauseTimerCore(p, ivs)
    IN  [pomodoro |-> [q.pomodoro EXCEPT !.mode = mode, !.time = ModeSeconds(mode)],
         intervals |-> q.intervals]

\* A faulty handleTimerEnd: a study session is followed by the long break
NextModeLongBreak(mode) ==
    IF mode = "study" THEN "long"
    ELSE IF mode = "short" \/ mode = "long" THEN "study"
    ELSE ""

\* A faulty handleTimerEnd: the short break is followed by the long break
NextModeShortToLong(mode) ==
    IF mode = "study" THEN "short"
    ELSE IF mode = "short" THEN "long"
    ELSE IF mode = "long" THEN "study"
    ELSE ""

\* the mode handleTimerEnd switches to
NextMode(mode) ==
    IF mode = "study" THEN "short"
    ELSE IF mode = "short" \/ mode = "long" THEN "study"
    ELSE ""

\* A faulty handleTimerEnd: the modal is shown on a manual switch too
HandleTimerEndAlwaysModal(p, ivs, manualSwitch) ==
    LET m == SetPomodoroMode(p, ivs, NextMode(p.mode))
    IN  [pomodoro |-> m.pomodoro, intervals |-> m.intervals, modal |-> TRUE]

\* handleTimerEnd(manualSwitch): the timer afterwards and whether the
\* 'Timer Done!' modal was shown
HandleTimerEnd(p, ivs, manualSwitch) ==
    LET m == SetPomodoroMode(p, ivs, NextMode(p.mode))
    IN  [pomodoro |-> m.pomodoro, intervals |-> m.intervals,
         modal |-> ~manualSwitch]

\* the smallest handle that setInterval has not handed out to a live or
\* remembered interval (a handle of setInterval is never one still in use)
FreshHandle(p, ivs) ==
    CHOOSE h \in 1..(Cardinality(ivs) + 2) :
        /\ h \notin ivs
        /\ h # p.intervalId
        /\ \A k \in 1..(h - 1) : k \in ivs \/ k = p.intervalId

----------------------------------------------------------------------------
(* Start-up *)

\* the DOM texts before any handler has written them
InitialUI ==
    [motivation |-> [kind |-> "", n |-> Null], statStreak |-> Null,
     pendingTasks |-> Null, resetBtn |-> "Reset",
     filter |-> "all", search |-> "", taskId |-> 0, tasksList |-> <<>>]

\* initializeApp on a freshly evaluated script: loadState, setPomodoroMode('study'),
\* setupNavigation -> showSection('dashboard') -> updateMotivationMessage,
\* updateStreak(false), renderTasks -> updateDashboardStats
AppStart(doc, z, t) ==
    LET l == LoadState(doc)
        pm == SetPomodoroMode(DefaultPomodoro, {}, "study")
        u1 == [InitialUI EXCEPT !.motivation = MotivationMessage(l.streak.count)]
        r == UpdateStreak(l.streak, FALSE, z, t)
        u2 == [u1 EXCEPT !.statStreak = r.streak.count]
        saved == SaveState(l.tasks, l.notes, l.theme, l.goals, l.userName,
                           r.streak, l.academicProfile)
        tks == RenderTasks(l.tasks, u2.filter, u2.search)
        u3 == ShowTasks(UpdateDashboardStats(u2, tks, r.streak),
                        TasksList(l.tasks, u2.filter, u2.search))
    IN  [tasks |-> tks, theme |-> l.theme, loadedStreak |-> l.streak,
         notes |-> l.notes, goals |-> l.goals, userName |-> l.userName,
         academicProfile |-> l.academicProfile,
         streak |-> r.streak, storage |-> saved, ui |-> u3,
         pomodoro |-> pm.pomodoro, intervals |-> pm.intervals,
         trace |-> LoadStateTrace(doc)
                   \o <<"setPomodoroMode", "showSection:dashboard",
                        "write:motivation-message">>
                   \o UpdateStreakTrace(FALSE, r.milestone)
                   \o <<"renderTasks", "write:motivation-message">>]

----------------------------------------------------------------------------
(* History of a run *)

NoHistory ==
    [\* the day of the completions recorded since the day last changed, the
     \* count after the first of them, and whether there was a later one
     dayRun |-> [day |-> Null, count |-> 0, again |-> FALSE],
     \* the day of the last recorded completion and the count after it
     lastCall |-> [day |-> Null, count |-> 0],
     \* the initializeApp that just ran found a broken streak and reset it
     loadReset |-> FALSE,
     \* the days on which a milestone modal was shown, in order
     milestoneDays |-> <<>>,
     \* a countdown started from a full study session and not interfered with
     session |-> [active |-> FALSE, ticks |-> 0, notes |-> 0],
     \* a countdown started and not interfered with: the ticks still due, that
     \* is the remaining seconds at its start less the ticks fired since
     run |-> [active |-> FALSE, due |-> 0],
     \* a countdown reached 0 and neither start, reset nor setMode came since
     completed |-> FALSE,
     \* a countdown reached 0 and the timer has not been started since
     ended |-> FALSE,
     \* the mode of the countdown that did ("" when none did)
     endedMode |-> "",
     \* what the last resetTimer found
     lastReset |-> [afterPause |-> FALSE, preCompleted |-> FALSE,
                    preEnded |-> FALSE, preMode |-> ""]]

\* the history after an updateStreak(true) call at instant t that left
\* the streak as post and showed the modal of `milestone`
AfterCompletion(h, post, milestone, t) ==
    [h EXCEPT
        !.dayRun = IF h.dayRun.day = ISODate(t)
                   THEN [h.dayRun EXCEPT !.again = TRUE]
                   ELSE [day |-> ISODate(t), count |-> post.count, again |-> FALSE],
        !.lastCall = [day |-> ISODate(t), count |-> post.count],
        !.milestoneDays = IF milestone # 0 THEN Append(h.milestoneDays, ISODate(t))
                          ELSE h.milestoneDays]

----------------------------------------------------------------------------
(* The application: streak, tasks and start-up *)

Init ==
    /\ now = 0
    /\ tz \in Zones
    /\ loaded = FALSE
    /\ tasks = <<>>
    /\ streak = DefaultStreak
    /\ theme = "light"
    /\ notes = ""
    /\ goals = {}
    /\ userName = <<>>
    /\ academicProfile = DefaultAcademicProfile
    /\ storage = NoDocument
    /\ ui = InitialUI
    /\ pomodoro = DefaultPomodoro
    /\ intervals = {}
    /\ trace = <<>>
    /\ writable = TRUE
    /\ lastOp = "none"
    /\ hist = NoHistory

\* time passes: an hour, or a day
AdvanceClock(d) ==
    /\ now + d <= MaxTime
    /\ now' = now + d
    /\ hist' = [hist EXCEPT
                  !.dayRun = IF ISODate(now + d) = ISODate(now) THEN hist.dayRun
                             ELSE NoHistory.dayRun,
                  !.loadReset = FALSE]
    /\ trace' = <<>>
    /\ UNCHANGED writable
    /\ lastOp' = "none"
    /\ UNCHANGED <<tz, loaded, tasks, streak, theme, storage, ui, pomodoro,
                   intervals, notes, goals, userName, academicProfile>>

\* window.onload = initializeApp: the page is (re)loaded, the script is
\* evaluated afresh and initializeApp runs on what localStorage holds
InitializeApp ==
    LET a == AppStart(storage, tz, now)
    IN  /\ loaded' = TRUE
        /\ tasks' = a.tasks
        /\ theme' = a.theme
        /\ notes' = a.notes
        /\ goals' = a.goals
        /\ userName' = a.userName
        /\ academicProfile' = a.academicProfile
        /\ streak' = a.streak
        /\ storage' = SaveStateCall(storage, writable, a.storage).storage
        /\ ui' = a.ui
        /\ pomodoro' = a.pomodoro
        /\ intervals' = a.intervals
        /\ trace' = a.trace
        /\ UNCHANGED writable
        /\ lastOp' = "initializeApp"
        /\ hist' = [hist EXCEPT
                      !.loadReset = a.streak # a.loadedStreak,
                      !.session = NoHistory.session, !.run = NoHistory.run,
                      !.completed = FALSE,
                      !.ended = FALSE,
                      !.endedMode = "",
                      !.lastReset = NoHistory.lastReset]
        /\ UNCHANGED <<now, tz>>

\* the submit handler of the task form: the task named by the form's task-id
\* is edited, or with an empty task-id (0 here, ids start at 1) a task is added
SubmitTaskForm(title, subject, deadline, priority) ==
    /\ loaded
    /\ LET taskId == ui.taskId
           taskIndex == FindIndex(tasks, taskId)
           newTask == [id |-> GetNextTaskId(tasks), title |-> title,
                       subject |-> subject, deadline |-> deadline,
                       priority |-> priority, status |-> "pending"]
           submitted ==
               IF taskId # 0
               THEN IF taskIndex # 0
                    THEN [tasks EXCEPT ![taskIndex].title = title,
                                       ![taskIndex].subject = subject,
                                       ![taskIndex].deadline = deadline,
                                       ![taskIndex].priority = priority]
                    ELSE tasks
               ELSE Append(tasks, newTask)
           modal == IF taskId # 0
                    THEN IF taskIndex # 0 THEN <<"showModal:Task Updated">>
                         ELSE <<>>
                    ELSE <<"showModal:Task Added">>
           tks == RenderTasks(submitted, ui.filter, ui.search)
       IN  /\ tasks' = tks
           /\ storage' = SaveStateCall(storage, writable,
                        SaveState(submitted, notes, theme, goals, userName,
                                  streak, academicProfile)).storage
           /\ ui' = ShowTasks(
                        UpdateDashboardStats([ui EXCEPT !.taskId = 0], tks, streak),
                        TasksList(submitted, ui.filter, ui.search))
           /\ trace' = modal \o <<"saveState", "renderTasks",
                                   "write:motivation-message">>
    /\ UNCHANGED writable
    /\ lastOp' = IF ui.taskId # 0 THEN "saveChanges" ELSE "addTask"
    /\ hist' = [hist EXCEPT !.loadReset = FALSE]
    /\ UNCHANGED <<now, tz, loaded, streak, theme, pomodoro, intervals, notes,
                   goals, userName, academicProfile>>

\* the submit handler of the task form with an empty task-id: a task is added
AddTask(title, subject, deadline, priority) ==
    /\ ui.taskId = 0
    /\ Len(tasks) < MaxTasks
    /\ SubmitTaskForm(title, subject, deadline, priority)

\* toggleTaskStatus(id)
ToggleTaskStatus(id) ==
    /\ loaded
    /\ LET r == ToggleTaskStatusCore(tasks, streak, id, tz, now)
           called == r.calls # <<>>
           tks == RenderTasks(r.tasks, ui.filter, ui.search)
           u1 == IF called THEN [ui EXCEPT !.statStreak = r.streak.count] ELSE ui
       IN  IF ~r.found
           THEN /\ trace' = <<>>
                /\ hist' = [hist EXCEPT !.loadReset = FALSE]
                /\ UNCHANGED <<tasks, streak, storage, ui>>
           ELSE /\ tasks' = tks
                /\ streak' = r.streak
                /\ storage' = SaveStateCall(storage, writable,
                        SaveState(r.tasks, notes, theme, goals, userName,
                                  r.streak, academicProfile)).storage
                /\ ui' = ShowTasks(UpdateDashboardStats(u1, tks, r.streak),
                                   TasksList(r.tasks, ui.filter, ui.search))
                /\ trace' = <<IF r.from = "pending" THEN "wasPending:true"
                               ELSE "wasPending:false">>
                            \o r.calls
                            \o <<"saveState", "renderTasks",
                                         "write:motivation-message",
                                         "showModal:Status Update">>
                /\ hist' = [(IF called
                             THEN AfterCompletion(hist, r.streak, r.milestone, now)
                             ELSE hist) EXCEPT !.loadReset = FALSE]
    /\ UNCHANGED writable
    /\ lastOp' = "toggleTaskStatus"
    /\ UNCHANGED <<now, tz, loaded, theme, pomodoro, intervals, notes, goals,
                   userName, academicProfile>>

\* the priority and deadline a task is added with
TaskInputs == {[title |-> "Quiz", subject |-> "Math",
                deadline |-> 1, priority |-> "Medium"]}

Next ==
    \/ \E d \in {1, 24} : AdvanceClock(d)
    \/ InitializeApp
    \/ \E i \in TaskInputs : AddTask(i.title, i.subject, i.deadline, i.priority)
    \/ \E id \in 1..(MaxTasks + 1) : ToggleTaskStatus(id)

Spec == Init /\ [][Next]_vars

----------------------------------------------------------------------------
(* The Pomodoro timer *)

\* a callback that starts the mode over at 0 instead of ending the session
TimerCallbackStartsOver(p, ivs, u) ==
    LET p1 == [p EXCEPT !.time = p.time - 1]
    IN  [pomodoro |-> IF p1.time <= 0
                      THEN [p1 EXCEPT !.time = ModeSeconds(p.mode)] ELSE p1,
         intervals |-> ivs, ui |-> u, ended |-> FALSE, modal |-> FALSE]

\* the callback startTimer hands to setInterval, run once
TimerCallback(p, ivs, u) ==
    LET p1 == [p EXCEPT !.time = p.time - 1]
    IN  IF p1.time <= 0
        THEN LET p2 == [p1 EXCEPT !.running = FALSE]
                 e == HandleTimerEnd(p2, ivs \ {p1.intervalId}, FALSE)
             IN  [pomodoro |-> e.pomodoro, intervals |-> e.intervals,
                  ui |-> [u EXCEPT !.resetBtn = "Next Mode"],
                  ended |-> TRUE, modal |-> e.modal]
        ELSE [pomodoro |-> p1, intervals |-> ivs, ui |-> u,
              ended |-> FALSE, modal |-> FALSE]

\* resetTimer
ResetTimerCore(p, ivs, u) ==
    LET q == PauseTimerCore(p, ivs)
    IN  IF u.resetBtn = "Next Mode"
        THEN LET e == HandleTimerEnd(q.pomodoro, q.intervals, TRUE)
             IN  [pomodoro |-> e.pomodoro, intervals |-> e.intervals, ui |-> u,
                  modal |-> e.modal]
        ELSE LET m == SetPomodoroMode(q.pomodoro, q.intervals, q.pomodoro.mode)
             IN  [pomodoro |-> m.pomodoro, intervals |-> m.intervals,
                  ui |-> [u EXCEPT !.resetBtn = "Reset"], modal |-> FALSE]

\* the application after initializeApp on an empty localStorage
InitPomodoro ==
    LET a == AppStart(NoDocument, CHOOSE z \in Zones : z.before = z.after, 0)
    IN  /\ now = 0
        /\ tz = (CHOOSE z \in Zones : z.before = z.after)
        /\ loaded = TRUE
        /\ tasks = a.tasks
        /\ streak = a.streak
        /\ theme = a.theme
        /\ notes = a.notes
        /\ goals = a.goals
        /\ userName = a.userName
        /\ academicProfile = a.academicProfile
        /\ storage = a.storage
        /\ ui = a.ui
        /\ pomodoro = a.pomodoro
        /\ intervals = a.intervals
        /\ trace = a.trace
        /\ writable = TRUE
        /\ lastOp = "initializeApp"
        /\ hist = NoHistory

\* startTimer (the click on start-btn)
StartTimer ==
    /\ loaded
    /\ IF pomodoro.running
       THEN UNCHANGED <<pomodoro, intervals, ui, hist>>
       ELSE LET h == FreshHandle(pomodoro, intervals)
            IN  /\ pomodoro' = [pomodoro EXCEPT !.running = TRUE, !.intervalId = h]
                /\ intervals' = intervals \cup {h}
                /\ ui' = [ui EXCEPT !.resetBtn = "Reset"]
                /\ hist' = [hist EXCEPT
                              !.session = [active |-> pomodoro.mode = "study"
                                                      /\ pomodoro.time = StudySeconds,
                                           ticks |-> 0, notes |-> 0],
                              !.run = [active |-> TRUE, due |-> pomodoro.time],
                              !.completed = FALSE,
                              !.ended = FALSE,
                              !.endedMode = "",
                              !.lastReset = NoHistory.lastReset]
    /\ trace' = <<>>
    /\ UNCHANGED writable
    /\ lastOp' = "startTimer"
    /\ UNCHANGED <<now, tz, loaded, tasks, streak, theme, storage, notes,
                   goals, userName, academicProfile>>

\* one firing of the interval with handle h
Tick(h) ==
    /\ h \in intervals
    /\ LET r == TimerCallback(pomodoro, intervals, ui)
       IN  /\ pomodoro' = r.pomodoro
           /\ intervals' = r.intervals
           /\ ui' = r.ui
           /\ trace' = IF r.modal THEN <<"showModal:Timer Done!">> ELSE <<>>
           /\ hist' = [hist EXCEPT
                         !.session = IF hist.session.active
                                     THEN [active |-> TRUE,
                                           ticks |-> hist.session.ticks + 1,
                                           notes |-> hist.session.notes
                                                     + (IF r.modal THEN 1 ELSE 0)]
                                     ELSE hist.session,
                         !.run = IF hist.run.active
                                 THEN [hist.run EXCEPT !.due = @ - 1]
                                 ELSE hist.run,
                         !.completed = hist.completed \/ r.ended,
                         !.ended = hist.ended \/ r.ended,
                         !.endedMode = IF r.ended THEN pomodoro.mode
                                       ELSE hist.endedMode,
                         !.lastReset = NoHistory.lastReset]
    /\ UNCHANGED writable
    /\ lastOp' = "tick"
    /\ UNCHANGED <<now, tz, loaded, tasks, streak, theme, storage, notes,
                   goals, userName, academicProfile>>

\* pauseTimer (the click on pause-btn)
PauseTimer ==
    /\ loaded
    /\ LET q == PauseTimerCore(pomodoro, intervals)
       IN  /\ pomodoro' = q.pomodoro
           /\ intervals' = q.intervals
    /\ hist' = [hist EXCEPT !.session = NoHistory.session, !.run = NoHistory.run,
                            !.lastReset = NoHistory.lastReset]
    /\ trace' = <<IF pomodoro.running THEN "clearInterval:countdown"
                   ELSE "clearInterval:nothing">>
    /\ UNCHANGED writable
    /\ lastOp' = "pauseTimer"
    /\ UNCHANGED <<now, tz, loaded, tasks, streak, theme, storage, ui, notes,
                   goals, userName, academicProfile>>

\* resetTimer (the click on reset-btn)
ResetTimer ==
    /\ loaded
    /\ LET r == ResetTimerCore(pomodoro, intervals, ui)
       IN  /\ pomodoro' = r.pomodoro
           /\ intervals' = r.intervals
           /\ ui' = r.ui
           /\ trace' = IF r.modal THEN <<"showModal:Timer Done!">> ELSE <<>>
    /\ hist' = [hist EXCEPT
                  !.session = NoHistory.session, !.run = NoHistory.run,
                  !.completed = FALSE,
                  !.lastReset = [afterPause |-> lastOp = "pauseTimer",
                                 preCompleted |-> hist.completed,
                                 preEnded |-> hist.ended,
                                 preMode |-> pomodoro.mode]]
    /\ UNCHANGED writable
    /\ lastOp' = "resetTimer"
    /\ UNCHANGED <<now, tz, loaded, tasks, streak, theme, storage, notes,
                   goals, userName, academicProfile>>

\* setPomodoroMode(mode) called for the user's choice of a mode
SelectMode(mode) ==
    /\ loaded
    /\ LET m == SetPomodoroMode(pomodoro, intervals, mode)
       IN  /\ pomodoro' = m.pomodoro
           /\ intervals' = m.intervals
    /\ hist' = [hist EXCEPT !.session = NoHistory.session, !.run = NoHistory.run,
                            !.completed = FALSE,
                            !.lastReset = NoHistory.lastReset]
    /\ trace' = <<"setPomodoroMode",
                  IF pomodoro.running THEN "clearInterval:countdown"
                  ELSE "clearInterval:nothing">>
    /\ UNCHANGED writable
    /\ lastOp' = "setPomodoroMode"
    /\ UNCHANGED <<now, tz, loaded, tasks, streak, theme, storage, ui, notes,
                   goals, userName, academicProfile>>

\* toggleTheme (the click on theme-toggle)
ToggleTheme ==
    /\ loaded
    /\ LET th == IF theme = "light" THEN "dark" ELSE "light"
           m == SetPomodoroMode(pomodoro, intervals, pomodoro.mode)
       IN  /\ theme' = th
           /\ pomodoro' = m.pomodoro
           /\ intervals' = m.intervals
           /\ storage' = SaveStateCall(storage, writable,
                        SaveState(tasks, notes, th, goals, userName,
                                  streak, academicProfile)).storage
    /\ hist' = [hist EXCEPT !.session = NoHistory.session, !.run = NoHistory.run,
                            !.completed = FALSE,
                            !.lastReset = NoHistory.lastReset]
    /\ trace' = <<"setPomodoroMode", "saveState">>
    /\ UNCHANGED writable
    /\ lastOp' = "toggleTheme"
    /\ UNCHANGED <<now, tz, loaded, tasks, streak, ui, notes, goals, userName,
                   academicProfile>>

NextPomodoro ==
    \/ StartTimer
    \/ \E h \in intervals : Tick(h)
    \/ PauseTimer
    \/ ResetTimer
    \/ \E mode \in Modes : SelectMode(mode)
    \/ ToggleTheme

SpecPomodoro == InitPomodoro /\ [][NextPomodoro]_vars

\* setInterval(..., 1000) fires its callback every second for as long as the
\* interval is not cleared
SpecPomodoroFair == SpecPomodoro /\ WF_vars(\E h \in intervals : Tick(h))

----------------------------------------------------------------------------
(* The task planner *)

\* editTask(id): the form is pre-filled for the task, if there is one
EditTask(id) ==
    /\ loaded
    /\ IF FindIndex(tasks, id) = 0
       THEN /\ trace' = <<>>
            /\ UNCHANGED ui
       ELSE /\ trace' = <<"showSection:planner">>
            /\ ui' = [ui EXCEPT !.taskId = id]
    /\ UNCHANGED writable
    /\ lastOp' = "editTask"
    /\ UNCHANGED <<now, tz, loaded, tasks, streak, theme, notes, goals, userName,
                   academicProfile, storage, pomodoro, intervals, hist>>

\* deleteTask(id)
DeleteTask(id) ==
    /\ loaded
    /\ LET kept == SelectSeq(tasks, LAMBDA t : t.id # id)
           tks == RenderTasks(kept, ui.filter, ui.search)
       IN  /\ tasks' = tks
           /\ storage' = SaveStateCall(storage, writable,
                        SaveState(kept, notes, theme, goals, userName,
                                  streak, academicProfile)).storage
           /\ ui' = ShowTasks(UpdateDashboardStats(ui, tks, streak),
                              TasksList(kept, ui.filter, ui.search))
    /\ trace' = <<"saveState", "renderTasks", "write:motivation-message",
                  "showModal:Task Deleted">>
    /\ UNCHANGED writable
    /\ lastOp' = "deleteTask"
    /\ UNCHANGED <<now, tz, loaded, streak, theme, notes, goals, userName,
                   academicProfile, pomodoro, intervals, hist>>

\* the 'change' listener of task-filter: renderTasks with the new filter
ChangeFilter(filterStatus) ==
    /\ loaded
    /\ LET tks == RenderTasks(tasks, filterStatus, ui.search)
       IN  /\ tasks' = tks
           /\ ui' = ShowTasks(
                        UpdateDashboardStats([ui EXCEPT !.filter = filterStatus],
                                             tks, streak),
                        TasksList(tasks, filterStatus, ui.search))
    /\ trace' = <<"renderTasks", "write:motivation-message">>
    /\ UNCHANGED writable
    /\ lastOp' = "changeFilter"
    /\ UNCHANGED <<now, tz, loaded, streak, theme, notes, goals, userName,
                   academicProfile, storage, pomodoro, intervals, hist>>

\* the 'input' listener of task-search: renderTasks with the new query
ChangeSearch(searchQuery) ==
    /\ loaded
    /\ LET tks == RenderTasks(tasks, ui.filter, searchQuery)
       IN  /\ tasks' = tks
           /\ ui' = ShowTasks(
                        UpdateDashboardStats([ui EXCEPT !.search = searchQuery],
                                             tks, streak),
                        TasksList(tasks, ui.filter, searchQuery))
    /\ trace' = <<"renderTasks", "write:motivation-message">>
    /\ UNCHANGED writable
    /\ lastOp' = "changeSearch"
    /\ UNCHANGED <<now, tz, loaded, streak, theme, notes, goals, userName,
                   academicProfile, storage, pomodoro, intervals, hist>>

\* the task form is submitted, for an edit or while the list and the ids
\* are within the bound
PlannerSubmit(title, subject, deadline, priority) ==
    /\ \/ ui.taskId # 0
       \/ Len(tasks) < MaxListed /\ GetNextTaskId(tasks) <= MaxListed + 1
    /\ SubmitTaskForm(title, subject, deadline, priority)

\* the priorities and deadlines tasks are planned with
PlannerInputs ==
    {[title |-> "Quiz", subject |-> "Math",
      deadline |-> 1, priority |-> "High"],
     [title |-> "Essay", subject |-> "Art",
      deadline |-> 1, priority |-> "Low"],
     [title |-> "Read", subject |-> "FAQ",
      deadline |-> 2, priority |-> "Low"]}

NextPlanner ==
    \/ \E i \in PlannerInputs :
           PlannerSubmit(i.title, i.subject, i.deadline, i.priority)
    \/ \E id \in 1..(MaxListed + 2) : ToggleTaskStatus(id)
    \/ \E id \in 1..(MaxListed + 2) : EditTask(id)
    \/ \E id \in 1..(MaxListed + 2) : DeleteTask(id)
    \/ \E f \in {"all", "pending", "completed"} : ChangeFilter(f)
    \/ \E q \in {"", "Q"} : ChangeSearch(q)

SpecPlanner == InitPomodoro /\ [][NextPlanner]_vars

\* the task list alone: additions, edits, toggles and deletions from an
\* empty list, the filter left on "all" and the search empty
NextTaskIds ==
    \/ \E i \in PlannerInputs :
           PlannerSubmit(i.title, i.subject, i.deadline, i.priority)
    \/ \E id \in 1..(MaxListed + 2) : ToggleTaskStatus(id)
    \/ \E id \in 1..(MaxListed + 2) : EditTask(id)
    \/ \E id \in 1..(MaxListed + 2) : DeleteTask(id)

SpecTaskIds == InitPomodoro /\ [][NextTaskIds]_vars

\* the tasks the rendered list is built from: every priority, and two deadlines
RenderInputs ==
    {[title |-> "Quiz", subject |-> "Math",
      deadline |-> 2, priority |-> "High"],
     [title |-> "Lab", subject |-> "FAQ",
      deadline |-> 1, priority |-> "Medium"],
     [title |-> "Essay", subject |-> "Art",
      deadline |-> 1, priority |-> "Low"],
     [title |-> "Read", subject |-> "Art",
      deadline |-> 2, priority |-> "Low"]}

\* the planner as far as renderTasks is concerned: tasks are added and
\* toggled, the filter and the search change
NextRender ==
    \/ \E i \in RenderInputs :
           PlannerSubmit(i.title, i.subject, i.deadline, i.priority)
    \/ \E id \in 1..MaxListed : ToggleTaskStatus(id)
    \/ \E f \in {"all", "pending", "completed"} : ChangeFilter(f)
    \/ \E q \in {"", "Q"} : ChangeSearch(q)

SpecRender == InitPomodoro /\ [][NextRender]_vars

----------------------------------------------------------------------------
(* Settings, goals and notes *)

\* String.prototype.trim on a sequence of characters
RECURSIVE TrimStart(_)
TrimStart(text) ==
    IF text # <<>> /\ Head(text) = " " THEN TrimStart(Tail(text)) ELSE text

RECURSIVE TrimEnd(_)
TrimEnd(text) ==
    IF text # <<>> /\ text[Len(text)] = " "
    THEN TrimEnd(SubSeq(text, 1, Len(text) - 1)) ELSE text

Trim(text) == TrimEnd(TrimStart(text))

Digits == <<"0", "1", "2", "3", "4", "5", "6", "7", "8", "9">>

DigitValue(c) == (CHOOSE i \in 1..Len(Digits) : Digits[i] = c) - 1

IsDigit(c) == \E i \in 1..Len(Digits) : Digits[i] = c

\* the longest prefix of text that consists of digits
RECURSIVE LeadingDigits(_)
LeadingDigits(text) ==
    IF text # <<>> /\ IsDigit(Head(text))
    THEN <<Head(text)>> \o LeadingDigits(Tail(text)) ELSE <<>>

RECURSIVE DecimalValue(_)
DecimalValue(ds) ==
    IF ds = <<>> THEN 0
    ELSE 10 * DecimalValue(SubSeq(ds, 1, Len(ds) - 1)) + DigitValue(ds[Len(ds)])

\* parseInt(text) for a text without a radix prefix: leading white space is
\* skipped, a sign is taken, the digits that follow are read and the rest is
\* ignored; NaN when no digit follows
ParseInt(text) ==
    LET t == TrimStart(text)
        signed == t # <<>> /\ (Head(t) = "-" \/ Head(t) = "+")
        ds == LeadingDigits(IF signed THEN Tail(t) ELSE t)
    IN  IF ds = <<>> THEN [nan |-> TRUE, n |-> 0]
        ELSE [nan |-> FALSE,
              n |-> IF signed /\ Head(t) = "-" THEN 0 - DecimalValue(ds)
                    ELSE DecimalValue(ds)]

\* state.goals[subject] is set
HasGoal(gls, subject) == \E g \in gls : g.subject = subject

\* saveSettings(type) with what the settings form holds
SaveSettings(type, nameInput, majorInput, levelInput) ==
    /\ loaded
    /\ LET newName == Trim(nameInput)
           name == IF type = "name" /\ newName # <<>> THEN newName ELSE userName
           prof == IF type = "profile"
                   THEN [major |-> Trim(majorInput), level |-> levelInput]
                   ELSE academicProfile
           saved == SaveStateCall(storage, writable,
                        SaveState(tasks, notes, theme, goals, name, streak, prof))
       IN  /\ userName' = name
           /\ academicProfile' = prof
           /\ storage' = saved.storage
           /\ trace' = (IF type = "name"
                        THEN IF newName # <<>>
                             THEN <<"write:welcome-message",
                                    "showModal:Profile Updated">>
                             ELSE <<"showModal:Error">>
                        ELSE IF type = "profile" THEN <<"showModal:Profile Saved">>
                        ELSE <<>>)
                       \o AfterSaveState(saved, <<>>)
    /\ UNCHANGED writable
    /\ lastOp' = "saveSettings"
    /\ UNCHANGED <<now, tz, loaded, tasks, streak, theme, notes, goals, ui,
                   pomodoro, intervals, hist>>

\* the submit handler of the goal form
GoalFormSubmit(subject, hoursText) ==
    /\ loaded
    /\ LET hours == ParseInt(hoursText)
       IN  IF subject # "" /\ ~hours.nan /\ hours.n > 0
           THEN LET gls ==
                        IF ~HasGoal(goals, subject)
                        THEN goals \cup {[subject |-> subject,
                                          totalGoal |-> hours.n,
                                          hoursLogged |-> 0]}
                        ELSE {IF g.subject = subject
                              THEN [g EXCEPT !.totalGoal = hours.n] ELSE g :
                              g \in goals}
                    saved == SaveStateCall(storage, writable,
                                 SaveState(tasks, notes, theme, gls, userName,
                                           streak, academicProfile))
                IN  /\ goals' = gls
                    /\ storage' = saved.storage
                    /\ trace' = AfterSaveState(saved, <<"renderGoals",
                                                        "showModal:Goal Set">>)
           ELSE /\ trace' = <<>>
                /\ UNCHANGED <<goals, storage>>
    /\ UNCHANGED writable
    /\ lastOp' = "goalFormSubmit"
    /\ UNCHANGED <<now, tz, loaded, tasks, streak, theme, notes, userName,
                   academicProfile, ui, pomodoro, intervals, hist>>

\* mockLogProgress(subject, hours)
MockLogProgress(subject, hours) ==
    /\ loaded
    /\ \A g \in goals : g.subject = subject => g.hoursLogged + hours <= MaxHours
    /\ IF HasGoal(goals, subject)
       THEN LET gls == {IF g.subject = subject
                        THEN [g EXCEPT !.hoursLogged = g.hoursLogged + hours]
                        ELSE g : g \in goals}
                saved == SaveStateCall(storage, writable,
                             SaveState(tasks, notes, theme, gls, userName,
                                       streak, academicProfile))
            IN  /\ goals' = gls
                /\ storage' = saved.storage
                /\ trace' = AfterSaveState(saved, <<"renderGoals",
                                                    "showModal:Progress Logged">>)
       ELSE /\ trace' = <<"showModal:Error">>
            /\ UNCHANGED <<goals, storage>>
    /\ UNCHANGED writable
    /\ lastOp' = "mockLogProgress"
    /\ UNCHANGED <<now, tz, loaded, tasks, streak, theme, notes, userName,
                   academicProfile, ui, pomodoro, intervals, hist>>

\* saveNotes: the 'input' listener of notes-textarea
SaveNotes(text) ==
    /\ loaded
    /\ notes' = text
    /\ LET saved == SaveStateCall(storage, writable,
                        SaveState(tasks, text, theme, goals, userName, streak,
                                  academicProfile))
       IN  /\ storage' = saved.storage
           /\ trace' = AfterSaveState(saved, <<>>)
    /\ UNCHANGED writable
    /\ lastOp' = "saveNotes"
    /\ UNCHANGED <<now, tz, loaded, tasks, streak, theme, goals, userName,
                   academicProfile, ui, pomodoro, intervals, hist>>

\* what the user types into user-name-input and student-major
NameInputs == {<<>>, <<" ">>, <<"A">>, <<" ", "B", " ">>}
\* what the user types into goal-hours
HoursInputs == {<<>>, <<"x">>, <<"0">>, <<"-", "1">>, <<"2">>, <<"1", "0">>,
                <<"3", ".", "5">>}
\* the subjects of goal-subject and of mockLogProgress
Subjects == {"", "Math", "Physics"}

NextSettings ==
    \/ \E n \in NameInputs : SaveSettings("name", n, <<>>, "undergrad")
    \/ \E m \in NameInputs, l \in {"undergrad", "grad"} :
           SaveSettings("profile", <<>>, m, l)
    \/ \E sb \in Subjects, h \in HoursInputs : GoalFormSubmit(sb, h)
    \/ \E sb \in Subjects : MockLogProgress(sb, 1)
    \/ \E text \in {"", "n"} : SaveNotes(text)

SpecSettings == InitPomodoro /\ [][NextSettings]_vars

\* the quota of localStorage is exhausted: setItem throws from now on
QuotaExceeded ==
    /\ loaded
    /\ writable
    /\ writable' = FALSE
    /\ trace' = <<>>
    /\ lastOp' = "none"
    /\ UNCHANGED <<now, tz, loaded, tasks, streak, theme, notes, goals, userName,
                   academicProfile, storage, ui, pomodoro, intervals, hist>>

\* room is made in localStorage (other keys of the origin are removed):
\* setItem succeeds again
QuotaFreed ==
    /\ loaded
    /\ ~writable
    /\ writable' = TRUE
    /\ trace' = <<>>
    /\ lastOp' = "none"
    /\ UNCHANGED <<now, tz, loaded, tasks, streak, theme, notes, goals, userName,
                   academicProfile, storage, ui, pomodoro, intervals, hist>>

\* what is typed into goal-hours while the quota comes and goes
QuotaHours == {<<"x">>, <<"1">>, <<"2">>}

\* the settings, goals and notes handlers on a localStorage whose quota
\* comes and goes
NextQuota ==
    \/ QuotaExceeded
    \/ QuotaFreed
    \/ \E n \in {<<>>, <<"A">>} : SaveSettings("name", n, <<>>, "undergrad")
    \/ \E m \in {<<"C", "S">>} : SaveSettings("profile", <<>>, m, "grad")
    \/ \E sb \in {"Math"}, h \in QuotaHours : GoalFormSubmit(sb, h)
    \/ \E sb \in {"Math", "Physics"} : MockLogProgress(sb, 1)
    \/ \E text \in {"", "n"} : SaveNotes(text)

SpecQuota == InitPomodoro /\ [][NextQuota]_vars

----------------------------------------------------------------------------
(* Start-up on whatever localStorage holds *)

\* documents another version of the application, or anything else, may have
\* left under APP_STORAGE_KEY
StoredTasks == {<<>>, <<[id |-> 1, title |-> "Quiz",
                        subject |-> "Math", deadline |-> 1,
                        priority |-> "High", status |-> "pending"]>>}
StoredGoals == {{}, {[subject |-> "Math", totalGoal |-> 2, hoursLogged |-> 0]}}
StoredStreaks == {DefaultStreak,
                  [count |-> 2, lastCompletionDate |-> 0, lastRewardedDay |-> Null]}
StoredProfiles == {DefaultAcademicProfile, [major |-> <<"C", "S">>, level |-> "grad"]}

StoredDocuments ==
    {NoDocument, [NoDocument EXCEPT !.exists = TRUE]}
    \cup {doc \in [exists : {TRUE}, parsable : {TRUE}, has : SUBSET Fields,
                    tasks : StoredTasks, notes : {"", "n"},
                    theme : {"light", "dark"}, goals : StoredGoals,
                    userName : {<<>>, <<"A">>}, streak : StoredStreaks,
                    academicProfile : StoredProfiles] :
              \A f \in Fields \ doc.has : doc[f] = DefaultState[f]}

\* the script has been evaluated and window.onload has not fired yet
InitLoad ==
    /\ now = 0
    /\ tz \in Zones
    /\ loaded = FALSE
    /\ tasks = DefaultState.tasks
    /\ streak = DefaultState.streak
    /\ theme = DefaultState.theme
    /\ notes = DefaultState.notes
    /\ goals = DefaultState.goals
    /\ userName = DefaultState.userName
    /\ academicProfile = DefaultState.academicProfile
    /\ storage \in StoredDocuments
    /\ ui = InitialUI
    /\ pomodoro = DefaultPomodoro
    /\ intervals = {}
    /\ trace = <<>>
    /\ writable = TRUE
    /\ lastOp = "none"
    /\ hist = NoHistory

NextLoad == InitializeApp

SpecLoad == InitLoad /\ [][NextLoad]_vars

----------------------------------------------------------------------------
(* Properties: streak *)

Count(seq, e) == Cardinality({i \in 1..Len(seq) : seq[i] = e})

\* a step in which toggleTaskStatus marked a task completed and so called
\* updateStreak(true): the recordCompletion of the specification
RecordCompletion ==
    /\ lastOp' = "toggleTaskStatus"
    /\ tasks' # tasks
    /\ Count(trace', "updateStreak(true)") > 0
    /\ \E id \in 1..(MaxTasks + 1) : ToggleTaskStatus(id)

\* C1: for the completions recorded on one calendar day, the count after the
\* first of them is the count after every later one (start-ups in between
\* included)
C1_SameDayIdempotent ==
    hist.dayRun.day # Null => streak.count = hist.dayRun.count

\* C1 witness: a second completion was recorded on a day whose first
\* completion continued a streak
C1_Witness ==
    /\ hist.dayRun.again
    /\ hist.dayRun.day = ISODate(now)
    /\ hist.dayRun.count >= 2

\* C2: a completion recorded on the day after the day of the previous recorded
\* completion makes the count one more than it was after that one
C2_ConsecutiveDaysIncrement ==
    [][ (RecordCompletion /\ hist.lastCall.day # Null
                          /\ ISODate(now) = hist.lastCall.day + 1)
        => streak'.count = hist.lastCall.count + 1 ]_vars

\* C3: a completion recorded when lastCompletionDate is neither today nor the
\* day before today sets count to 1 and lastCompletionDate to today
C3_GapResetsToOne ==
    [][ (RecordCompletion /\ streak.lastCompletionDate # ISODate(now)
                          /\ streak.lastCompletionDate # ISODate(now) - 1)
        => (streak'.count = 1 /\ streak'.lastCompletionDate = ISODate(now)) ]_vars

\* C4: no calendar day sees two milestone modals
C4_OneMilestonePerDay ==
    \A i, j \in 1..Len(hist.milestoneDays) :
        i # j => hist.milestoneDays[i] # hist.milestoneDays[j]

\* C4 witness: a milestone modal was shown today and a later completion was
\* recorded today
C4_Witness ==
    /\ hist.milestoneDays # <<>>
    /\ hist.milestoneDays[Len(hist.milestoneDays)] = ISODate(now)
    /\ hist.dayRun.day = ISODate(now)
    /\ hist.dayRun.again
    /\ streak.lastRewardedDay = ISODate(now)

\* C6: updateStreak(false) at start-up resets the streak to zeros when
\* lastCompletionDate is before the day before today, and otherwise leaves the
\* loaded streak as it is
C6_ReconcileOnLoad ==
    [][ InitializeApp =>
          LET pre == LoadState(storage).streak
          IN  IF pre.lastCompletionDate # Null
                 /\ pre.lastCompletionDate < ISODate(now) - 1
              THEN streak' = DefaultStreak
              ELSE streak' = pre ]_vars

\* the places of an event in a trace
Places(seq, e) == {i \in 1..Len(seq) : seq[i] = e}

\* C8 as claimed: initializeApp calls updateStreak(false) exactly once, and no
\* write of the streak stat or of the motivation message comes before it
C8_ReconcileBeforeAnyDisplay ==
    lastOp = "initializeApp" =>
        /\ Count(trace, "updateStreak(false)") = 1
        /\ \A i \in Places(trace, "write:stat-streak")
                    \cup Places(trace, "write:motivation-message") :
               \A k \in Places(trace, "updateStreak(false)") : i > k

\* C8 amended: initializeApp calls updateStreak(false) exactly once, writes the
\* streak stat only after it, writes the motivation message again after it,
\* and ends with both showing the reconciled count
C8_DisplaysReconciledAtEnd ==
    lastOp = "initializeApp" =>
        /\ Count(trace, "updateStreak(false)") = 1
        /\ \A i \in Places(trace, "write:stat-streak") :
               \A k \in Places(trace, "updateStreak(false)") : i > k
        /\ \E i \in Places(trace, "write:motivation-message") :
               \A k \in Places(trace, "updateStreak(false)") : i > k
        /\ ui.statStreak = streak.count
        /\ ui.motivation = MotivationMessage(streak.count)

\* C8 witness: a start-up that found a broken streak and reset it
C8_Witness ==
    /\ lastOp = "initializeApp"
    /\ hist.loadReset
    /\ streak.count = 0
    /\ ui.motivation = MotivationMessage(0)

\* C9: a toggle from pending to completed calls updateStreak(true) exactly once
\* and leaves the streak as that one call makes it; a toggle from completed
\* to pending calls it not at all and leaves the streak unchanged
C9_ToggleCallsOnceOnCompletion ==
    [][ \A id \in 1..(MaxTasks + 1) :
          (lastOp' = "toggleTaskStatus" /\ FindIndex(tasks, id) # 0
             /\ ToggleTaskStatus(id)) =>
              IF tasks[FindIndex(tasks, id)].status = "pending"
              THEN /\ Count(trace', "updateStreak(true)") = 1
                   /\ streak' = UpdateStreak(streak, TRUE, tz, now).streak
              ELSE /\ Count(trace', "updateStreak(true)") = 0
                   /\ streak' = streak ]_vars

\* C9 witness: a completed task was put back to pending on a later day than
\* its completion, with a streak running
C9_Witness ==
    /\ lastOp = "toggleTaskStatus"
    /\ Count(trace, "wasPending:false") = 1
    /\ streak.count > 0
    /\ streak.lastCompletionDate < ISODate(now)

\* C10: count is 0 exactly when lastCompletionDate is null
C10_ZeroIffNoDate ==
    (streak.count = 0) <=> (streak.lastCompletionDate = Null)

\* C10 witness: a streak that was running has been reset at start-up
C10_Witness ==
    /\ hist.loadReset
    /\ hist.lastCall.count > 0
    /\ streak.count = 0

\* C19: a recorded completion whose lastCompletionDate is not today runs the
\* milestone check: when the new count is a milestone and lastRewardedDay is
\* not today, the modal for that count is shown and lastRewardedDay becomes
\* today, and otherwise no modal is shown and lastRewardedDay stays; a recorded
\* completion whose lastCompletionDate is today shows no modal and leaves
\* lastRewardedDay alone
C19_MilestoneCheckOnChange ==
    [][ RecordCompletion =>
          LET today == ISODate(now)
              shown == Count(trace', "showModal:MILESTONE REACHED")
          IN  IF streak.lastCompletionDate # today
                 /\ streak'.count \in {5, 10, 20, 50, 100}
                 /\ streak.lastRewardedDay # today
              THEN /\ shown = 1
                   /\ UpdateStreak(streak, TRUE, tz, now).milestone = streak'.count
                   /\ streak'.lastRewardedDay = today
              ELSE /\ shown = 0
                   /\ streak'.lastRewardedDay = streak.lastRewardedDay ]_vars

\* C19 witness: the completion just recorded brought the count to 5 and the
\* milestone modal was shown
C19_Witness ==
    /\ lastOp = "toggleTaskStatus"
    /\ Count(trace, "showModal:MILESTONE REACHED") = 1
    /\ streak.count = 5
    /\ streak.lastRewardedDay = ISODate(now)
    /\ ~hist.dayRun.again

----------------------------------------------------------------------------
(* Properties: Pomodoro timer *)

\* C5: a countdown started at study / 1500 s and not interfered with is still
\* running in study mode before its 1500th tick, with no 'Timer Done!' modal
\* shown, and after its 1500th tick the timer is stopped in short-break mode
\* at 300 s with exactly one 'Timer Done!' modal shown
C5_StudySessionCompletes ==
    hist.session.active =>
        IF hist.session.ticks < StudySeconds
        THEN /\ pomodoro.running
             /\ pomodoro.mode = "study"
             /\ pomodoro.time = StudySeconds - hist.session.ticks
             /\ hist.session.notes = 0
        ELSE /\ hist.session.ticks = StudySeconds
             /\ ~pomodoro.running
             /\ intervals = {}
             /\ pomodoro.mode = "short"
             /\ pomodoro.time = ShortSeconds
             /\ hist.session.notes = 1

\* C5 witness: the 1500th tick of such a countdown has happened
C5_Witness ==
    /\ hist.session.active
    /\ hist.session.ticks = StudySeconds
    /\ lastOp = "tick"

\* C7: a pause followed by a reset, in a state where no countdown has reached 0
\* since the last start, reset or mode selection, leaves the mode as it was
\* and loads that mode's duration
C7_PauseResetKeepsMode ==
    (lastOp = "resetTimer" /\ hist.lastReset.afterPause
                           /\ ~hist.lastReset.preCompleted)
    => (/\ pomodoro.mode = hist.lastReset.preMode
        /\ pomodoro.time = ModeSeconds(pomodoro.mode))

\* the 'Timer Done!' modals a handler showed
TimerDoneModals(seq) == Count(seq, "showModal:Timer Done!")

\* a firing of the countdown callback that brings the time to 0
NaturalCompletion == (\E h \in intervals : Tick(h)) /\ pomodoro.time - 1 <= 0

\* C11: at most one countdown callback is active, and one is active exactly
\* when running is true; startTimer while running creates none; pauseTimer,
\* a natural completion and setPomodoroMode each leave none active; the time
\* is decremented only while running is true
C11_SingleCountdown ==
    /\ [](/\ Cardinality(intervals) <= 1
          /\ (pomodoro.running <=> intervals # {})
          /\ (pomodoro.running => intervals = {pomodoro.intervalId}))
    /\ [][ (StartTimer /\ pomodoro.running) => intervals' = intervals ]_vars
    /\ [][ (PauseTimer \/ NaturalCompletion \/ \E m \in Modes : SelectMode(m))
            => (intervals' = {} /\ ~pomodoro'.running) ]_vars
    /\ [][ (\E h \in intervals : Tick(h)) => pomodoro.running ]_vars

\* C11 witness: start-btn was clicked while a countdown that has already
\* ticked was running, and one callback is active
C11_Witness ==
    /\ lastOp = "startTimer"
    /\ hist.session.active
    /\ hist.session.ticks > 0
    /\ pomodoro.running
    /\ Cardinality(intervals) = 1

\* C12: resetTimer, after a countdown reached 0 and before the timer is started
\* again, switches to the mode the end-of-session rule gives for the current
\* mode and shows no 'Timer Done!' modal; a step shows one 'Timer Done!' modal
\* when it is a natural completion and none otherwise
C12_ResetAfterCompletionAdvances ==
    /\ [][ (ResetTimer /\ hist.ended)
            => /\ pomodoro'.mode = NextMode(pomodoro.mode)
               /\ pomodoro'.time = ModeSeconds(pomodoro'.mode)
               /\ ~pomodoro'.running
               /\ TimerDoneModals(trace') = 0 ]_vars
    /\ [][ TimerDoneModals(trace') = (IF NaturalCompletion THEN 1 ELSE 0) ]_vars

\* C12 witness: a break ran down to 0 and reset-btn was clicked next
C12_Witness ==
    /\ lastOp = "resetTimer"
    /\ hist.lastReset.preEnded
    /\ hist.lastReset.preCompleted
    /\ hist.lastReset.preMode = "study"
    /\ pomodoro.mode = "short"

\* C13: toggleTheme leaves mode, time and running of state.pomodoro unchanged
C13_ThemeToggleKeepsPomodoro ==
    [][ ToggleTheme => /\ pomodoro'.mode = pomodoro.mode
                       /\ pomodoro'.time = pomodoro.time
                       /\ pomodoro'.running = pomodoro.running ]_vars

\* C17: a natural completion and a resetTimer that finds 'Next Mode' take
\* study to short and both short and long to study, and the only step that
\* takes the mode from another mode to long is setPomodoroMode('long')
C17_LongBreakOnlyBySelection ==
    /\ [][ (NaturalCompletion \/ (ResetTimer /\ ui.resetBtn = "Next Mode"))
            => pomodoro'.mode = (IF pomodoro.mode = "study" THEN "short"
                                 ELSE "study") ]_vars
    /\ [][ (pomodoro'.mode = "long" /\ pomodoro.mode # "long")
            => SelectMode("long") ]_vars

\* C17 witness: a long break ran down to 0
C17_Witness ==
    /\ lastOp = "tick"
    /\ hist.ended
    /\ pomodoro.mode = "study"
    /\ trace = <<"showModal:Timer Done!">>
    /\ hist.endedMode = "long"

\* C18: the remaining time is an integer from 0 to the duration of the mode
C18_TimeWithinDuration ==
    /\ pomodoro.mode \in Modes
    /\ ModeSeconds("study") = 1500
    /\ ModeSeconds("short") = 300
    /\ ModeSeconds("long") = 900
    /\ pomodoro.time \in 0..ModeSeconds(pomodoro.mode)

\* C18 witness: a short break has one second left on the clock
C18_Witness ==
    /\ pomodoro.mode = "short"
    /\ pomodoro.running
    /\ pomodoro.time = 1

\* C21: pauseTimer leaves mode and time as they are and running false; with
\* no countdown running it changes nothing of the timer; and startTimer right
\* after a pauseTimer sets running with the time the pause left, so that the
\* next tick counts down from it
C21_PauseKeepsTime ==
    /\ [][ PauseTimer => /\ pomodoro'.mode = pomodoro.mode
                          /\ pomodoro'.time = pomodoro.time
                          /\ ~pomodoro'.running
                          /\ intervals' = {}
                          /\ (~pomodoro.running =>
                                 /\ pomodoro' = pomodoro
                                 /\ intervals' = intervals
                                 /\ ui' = ui) ]_vars
    /\ [][ (StartTimer /\ lastOp = "pauseTimer")
            => /\ pomodoro'.running
               /\ pomodoro'.mode = pomodoro.mode
               /\ pomodoro'.time = pomodoro.time
               /\ TimerCallback(pomodoro', intervals', ui').pomodoro.time
                     \in {pomodoro.time - 1, ModeSeconds(NextMode(pomodoro.mode))} ]_vars

\* C21 witness: a countdown that had run for a while was paused
C21_Witness ==
    /\ lastOp = "pauseTimer"
    /\ trace = <<"clearInterval:countdown">>
    /\ ~pomodoro.running
    /\ pomodoro.time > 0
    /\ pomodoro.time < ModeSeconds(pomodoro.mode)

\* C22: setPomodoroMode(m), for m any of the three modes and from any state of
\* the timer, leaves running false, no countdown callback active, the mode m
\* and the time at m's duration
C22_SetModeStopsAndReloads ==
    [][ \A m \in Modes :
          SelectMode(m) => /\ ~pomodoro'.running
                           /\ intervals' = {}
                           /\ pomodoro'.mode = m
                           /\ pomodoro'.time = (IF m = "study" THEN 1500
                                                 ELSE IF m = "short" THEN 300
                                                 ELSE 900) ]_vars

\* C22 witness: the long break was selected while a countdown was running
C22_Witness ==
    /\ lastOp = "setPomodoroMode"
    /\ trace = <<"setPomodoroMode", "clearInterval:countdown">>
    /\ pomodoro.mode = "long"
    /\ pomodoro.time = LongSeconds

\* pauseTimer, resetTimer, setPomodoroMode or toggleTheme has just run
Intervened ==
    lastOp \in {"pauseTimer", "resetTimer", "setPomodoroMode", "toggleTheme"}

\* the countdown has just ended at 0: running is false, the mode is the one
\* the end-of-session transition gives, and no tick of the run is still due
CompletedNaturally ==
    /\ lastOp = "tick"
    /\ ~pomodoro.running
    /\ hist.ended
    /\ pomodoro.mode = NextMode(hist.endedMode)
    /\ hist.run.due = 0

\* C26: once startTimer has set running to true, if the timer callback keeps
\* firing and no pause, reset, setMode or theme toggle intervenes, the
\* countdown reaches a natural completion: running becomes false and the
\* mode has advanced by the end-of-session transition, after exactly as many
\* ticks as there were seconds remaining at the start.
C26_CountdownCompletes ==
    /\ (lastOp = "startTimer" /\ pomodoro.running)
          ~> (Intervened \/ CompletedNaturally)
    /\ [](pomodoro.running => hist.run.active /\ hist.run.due > 0)
    /\ [](hist.run.active => (hist.run.due = 0 <=> CompletedNaturally))

\* a short break, started and left alone, has run down: study is next
C26_Witness ==
    /\ CompletedNaturally
    /\ hist.run.active
    /\ hist.endedMode = "short"
    /\ pomodoro.mode = "study"
    /\ pomodoro.time = StudySeconds

----------------------------------------------------------------------------
(* Properties: the task list *)

\* the ids of a list of tasks
TaskIds(tks) == {tks[i].id : i \in 1..Len(tks)}

\* the tasks of the list at positions i < j are in the order renderTasks promises
InOrder(a, b) ==
    /\ ~(a.status = "completed" /\ b.status = "pending")
    /\ a.status = b.status
         => PRIORITY_ORDER(a.priority) >= PRIORITY_ORDER(b.priority)
    /\ (a.status = b.status /\ a.priority = b.priority)
         => a.deadline <= b.deadline

\* the task of the i-th item of tasks-list
Listed(i) == tasks[FindIndex(tasks, ui.tasksList[i])]

\* C23: in the list renderTasks produces every pending task precedes every
\* completed task; among tasks of equal status the higher priority
\* (High > Medium > Low) comes first; among tasks of equal status and priority
\* the earlier deadline comes first.
C23_RenderedListIsOrdered ==
    \A i, j \in 1..Len(ui.tasksList) :
        i < j => InOrder(Listed(i), Listed(j))

\* two tasks are listed, and the one added later (Low, pending) is placed
\* before the one added first (High, completed)
C23_Witness ==
    /\ Len(ui.tasksList) = 2
    /\ Listed(1).status = "pending" /\ Listed(1).priority = "Low"
    /\ Listed(2).status = "completed" /\ Listed(2).priority = "High"
    /\ Listed(1).id > Listed(2).id

\* C25: starting from an empty task list, after any additions, edits, toggles
\* and deletions no two tasks of state.tasks have the same id, and a newly
\* added task gets an id greater than the id of every task present at that
\* moment, 1 when the list is empty.
C25_TaskIdsUniqueAndIncreasing ==
    /\ [](\A i, j \in 1..Len(tasks) : i # j => tasks[i].id # tasks[j].id)
    /\ [][ (ui.taskId = 0 /\ lastOp' = "addTask")
            => /\ Len(tasks') = Len(tasks) + 1
               /\ TaskIds(tasks) \subseteq TaskIds(tasks')
               /\ Cardinality(TaskIds(tasks') \ TaskIds(tasks)) = 1
               /\ \A n \in TaskIds(tasks') \ TaskIds(tasks) :
                      /\ \A o \in TaskIds(tasks) : n > o
                      /\ tasks = <<>> => n = 1 ]_vars

\* a task was added after the task with the lowest id was deleted
C25_Witness ==
    /\ lastOp = "addTask"
    /\ Len(tasks) = 2
    /\ TaskIds(tasks) = {2, 3}

----------------------------------------------------------------------------
(* Properties: persistence *)

\* C20: loadState gives every persisted field its default when nothing is
\* stored or the stored text does not parse; when it parses, a field the
\* document carries takes the stored value and a field it lacks takes its
\* default; and initializeApp goes on with these values
C20_LoadStateDefaults ==
    [][ InitializeApp =>
          LET l == LoadState(storage)
          IN  /\ IF ~storage.exists \/ ~storage.parsable
                 THEN \A f \in Fields : l[f] = DefaultState[f]
                 ELSE \A f \in Fields :
                          l[f] = IF f \in storage.has THEN storage[f]
                                 ELSE DefaultState[f]
              /\ loaded'
              /\ notes' = l.notes
              /\ theme' = l.theme
              /\ goals' = l.goals
              /\ userName' = l.userName
              /\ academicProfile' = l.academicProfile
              /\ Len(tasks') = Len(l.tasks) ]_vars

\* C20 witness: start-up on a document that carries notes and tasks and
\* lacks the theme, the name and the streak
C20_Witness ==
    /\ lastOp = "initializeApp"
    /\ trace[2] = "loadState:some fields missing"
    /\ notes = "n"
    /\ Len(tasks) = 1
    /\ theme = "light"
    /\ userName = <<>>
    /\ streak = DefaultStreak
    /\ academicProfile.level = "grad"

\* the handler that just ran made this call or DOM write
Did(tr, event) == \E i \in 1..Len(tr) : tr[i] = event

\* C24: when the write to storage fails, saveState returns normally (no
\* error reaches the caller: the handler goes on to its last statement) and
\* the in-memory state is as the handler set it, the stored document being
\* left alone; later handlers read and change the in-memory state, and the
\* next write that succeeds stores all of it.
C24_FailedSaveKeepsMemory ==
    /\ [](~Did(trace, "throw"))
    /\ [][ (~writable /\ Did(trace', "saveState"))
            => storage' = storage /\ Did(trace', "console.error") ]_vars
    /\ [][ \A text \in {"", "n"} : SaveNotes(text) => notes' = text ]_vars
    /\ [][ \A n \in {<<"A">>} :
              SaveSettings("name", n, <<>>, "undergrad") => userName' = n ]_vars
    /\ [][ \A h \in {<<"1">>, <<"2">>} :
              GoalFormSubmit("Math", h)
              => /\ \E g \in goals' :
                       g.subject = "Math" /\ g.totalGoal = ParseInt(h).n
                 /\ trace'[Len(trace')] = "showModal:Goal Set" ]_vars
    /\ [][ (MockLogProgress("Math", 1) /\ HasGoal(goals, "Math"))
            => /\ \A g \in goals : g.subject = "Math" =>
                     \E g2 \in goals' : /\ g2.subject = "Math"
                                         /\ g2.hoursLogged = g.hoursLogged + 1
               /\ trace'[Len(trace')] = "showModal:Progress Logged" ]_vars
    /\ [][ (writable /\ Did(trace', "saveState"))
            => storage' = SaveState(tasks', notes', theme', goals', userName',
                                    streak', academicProfile') ]_vars

\* with the quota exhausted a goal was set and progress was logged against
\* it: the goal is in memory with its logged hour, the stored document has
\* no goal, and the handler ran to its modal
C24_Witness ==
    /\ ~writable
    /\ lastOp = "mockLogProgress"
    /\ trace = <<"saveState", "console.error", "renderGoals",
                 "showModal:Progress Logged">>
    /\ \E g \in goals : g.subject = "Math" /\ g.hoursLogged = 1
    /\ storage.goals = {}

\* C14: once the application is loaded, the document in storage is the one
\* saveState would write from the persisted fields in memory
C14_StorageEqualsMemory ==
    loaded => storage = SaveState(tasks, notes, theme, goals, userName, streak,
                                  academicProfile)

----------------------------------------------------------------------------
(* Properties: error handling *)

\* the showModal calls of the handlers
ModalEvents ==
    {"showModal:Task Added", "showModal:Task Updated", "showModal:Task Deleted",
     "showModal:Status Update", "showModal:MILESTONE REACHED",
     "showModal:Timer Done!", "showModal:Profile Updated",
     "showModal:Profile Saved", "showModal:Goal Set",
     "showModal:Progress Logged", "showModal:Error"}

ModalsShown(seq) == Cardinality({i \in 1..Len(seq) : seq[i] \in ModalEvents})

\* a step that changes no task, goal or streak and shows no modal
NoEffectNoModal ==
    /\ tasks' = tasks
    /\ goals' = goals
    /\ streak' = streak
    /\ ModalsShown(trace') = 0

\* C15: toggleTaskStatus, editTask and deleteTask with an id no task has, and
\* mockLogProgress with a subject no goal has, change no task, goal or streak
\* and show no modal
C15_UnknownIdIsSilentNoOp ==
    [][ /\ \A id \in 1..(MaxListed + 2) :
               (FindIndex(tasks, id) = 0
                /\ (ToggleTaskStatus(id) \/ EditTask(id) \/ DeleteTask(id)))
               => NoEffectNoModal
        /\ \A sb \in Subjects :
               (~HasGoal(goals, sb) /\ MockLogProgress(sb, 1))
               => NoEffectNoModal ]_vars

\* goal hours that are not a number or not positive, and names that are empty
\* or white space only
InvalidHours == {<<>>, <<"x">>, <<"0">>, <<"-", "1">>}
InvalidNames == {<<>>, <<" ">>}

\* a step that shows a modal and leaves every persisted field as it was
RejectedWithModal ==
    /\ ModalsShown(trace') >= 1
    /\ tasks' = tasks
    /\ notes' = notes
    /\ theme' = theme
    /\ goals' = goals
    /\ userName' = userName
    /\ streak' = streak
    /\ academicProfile' = academicProfile

\* C16: a goal form submitted with an empty subject or invalid hours, and a
\* name saved empty or white space only, show a modal and leave every
\* persisted field unchanged
C16_InvalidInputRejectedWithModal ==
    [][ /\ \A sb \in Subjects, h \in HoursInputs :
               (GoalFormSubmit(sb, h) /\ (sb = "" \/ h \in InvalidHours))
               => RejectedWithModal
        /\ \A n \in InvalidNames :
               SaveSettings("name", n, <<>>, "undergrad") => RejectedWithModal ]_vars

====
